---- MODULE Spec2Model ----
(***************************************************************************)
(* Bugzilla MCP server (server.py): six tools registered on a FastMCP      *)
(* server, each translating one invocation into one HTTP request against   *)
(* the Bugzilla REST API and classifying the response.                     *)
(*                                                                         *)
(* Python dicts are modelled as TLA+ functions from keys to strings, JSON  *)
(* texts as sequences of members, and argument values as tagged records.   *)
(***************************************************************************)
EXTENDS Integers, Sequences, FiniteSets, TLC

VARIABLES
    BUGZILLA_API_URL,   \* module global, set once at import (line 13)
    BUGZILLA_API_KEY,   \* module global, set once at import (line 17)
    pc,                 \* per caller slot: position of its invocation
    inv,                \* per caller slot: the invocation as submitted
    reqs,               \* per caller slot: the outbound requests it has issued
    resp,               \* per caller slot: what requests.<method> produced
    outcome             \* per caller slot: what the invocation handed back

vars == <<BUGZILLA_API_URL, BUGZILLA_API_KEY, pc, inv, reqs, resp, outcome>>

\* Number of caller slots.
NProcs == 2

Procs == 1..NProcs

EmptyDict == <<>>

----------------------------------------------------------------------------
(* Argument values as the caller supplies them.                            *)

Str(s) == [shape |-> "str", str |-> s, dict |-> EmptyDict]

Dict(d) == [shape |-> "dict", str |-> "", dict |-> d]

ArgValues ==
    { Str("123"),
      Dict([summary |-> "S"]),
      Dict([api_key |-> "other", status |-> "NEW"]) }

ArgNames == {"bug_ids", "bug_id", "new_since", "query", "query_strs", "bug_data"}

Arguments == UNION { [S -> ArgValues] : S \in SUBSET ArgNames }

----------------------------------------------------------------------------
(* The tool catalog: the functions decorated with @mcp.tool() and their    *)
(* signatures.                                                             *)

Param(n, sh, req, dflt) ==
    [name |-> n, shape |-> sh, required |-> req, default |-> dflt]

get_bug_params == <<Param("bug_ids", "str", TRUE, "")>>

\* get_bug_history with an empty default for new_since.
get_bug_history_params_empty_default ==
    <<Param("bug_id", "str", TRUE, ""), Param("new_since", "str", FALSE, "")>>

get_bug_history_params ==
    <<Param("bug_id", "str", TRUE, ""), Param("new_since", "str", FALSE, "1970-01-01")>>

search_bugs_params == <<Param("query_strs", "dict", TRUE, "")>>

create_bug_params == <<Param("bug_data", "dict", TRUE, "")>>

update_bug_params ==
    <<Param("bug_id", "str", TRUE, ""), Param("bug_data", "dict", TRUE, "")>>

get_bug_comments_params == <<Param("bug_id", "str", TRUE, "")>>

ToolNames ==
    {"get_bug", "get_bug_history", "search_bugs", "create_bug", "update_bug",
     "get_bug_comments"}

Signature(tool) ==
    CASE tool = "get_bug" -> get_bug_params
      [] tool = "get_bug_history" -> get_bug_history_params
      [] tool = "search_bugs" -> search_bugs_params
      [] tool = "create_bug" -> create_bug_params
      [] tool = "update_bug" -> update_bug_params
      [] tool = "get_bug_comments" -> get_bug_comments_params

\* Names a caller may put in an invocation: the six tools and one that is
\* not registered.
InvokedNames == ToolNames \cup {"delete_bug"}

ParamNames(ps) == { ps[k].name : k \in DOMAIN ps }

MissingRequired(ps, args) ==
    \E k \in DOMAIN ps : ps[k].required /\ ps[k].name \notin DOMAIN args

Unexpected(ps, args) == (DOMAIN args) \ ParamNames(ps) # {}

WrongShape(ps, args) ==
    \E k \in DOMAIN ps :
        /\ ps[k].name \in DOMAIN args
        /\ args[ps[k].name].shape # ps[k].shape

\* The parameters of the call as the function body sees them: supplied
\* values, and the declared default for an omitted optional parameter.
BoundArgs(ps, args) ==
    [n \in ParamNames(ps) |->
        IF n \in DOMAIN args
        THEN args[n]
        ELSE Str(ps[CHOOSE k \in DOMAIN ps : ps[k].name = n].default)]

\* A binding that fills in a missing required parameter instead of refusing.
Accepts_missing_required(tool, args) ==
    /\ tool \in ToolNames
    /\ ~Unexpected(Signature(tool), args)
    /\ ~WrongShape(Signature(tool), args)

Accepts(tool, args) ==
    /\ tool \in ToolNames
    /\ ~MissingRequired(Signature(tool), args)
    /\ ~Unexpected(Signature(tool), args)
    /\ ~WrongShape(Signature(tool), args)

----------------------------------------------------------------------------
(* JSON texts and their conversion to and from dicts.                      *)

\* The order in which the members of a dict are written out.
KeyOrder == <<"api_key", "bugs", "error", "faults", "id", "status", "summary">>

Member(k, v) == [k |-> k, v |-> v]

RECURSIVE DumpMembers(_, _)
DumpMembers(d, n) ==
    IF n > Len(KeyOrder) THEN <<>>
    ELSE IF KeyOrder[n] \in DOMAIN d
         THEN <<Member(KeyOrder[n], d[KeyOrder[n]])>> \o DumpMembers(d, n + 1)
         ELSE DumpMembers(d, n + 1)

\* json.dumps of a dict.
JsonDumps(d) == [wellformed |-> TRUE, members |-> DumpMembers(d, 1)]

RECURSIVE LoadMembers(_)
LoadMembers(ms) ==
    IF ms = <<>> THEN EmptyDict
    ELSE LET rest == LoadMembers(SubSeq(ms, 1, Len(ms) - 1))
             last == ms[Len(ms)]
         IN [k \in (DOMAIN rest) \cup {last.k} |->
                IF k = last.k THEN last.v ELSE rest[k]]

\* json.loads of a well-formed text; a repeated key keeps its last value.
JsonLoads(t) == LoadMembers(t.members)

NoBody == [wellformed |-> FALSE, members |-> <<>>]

----------------------------------------------------------------------------
(* Requests, responses and outcomes.                                       *)

Request(method, url, params, hasJson, body) ==
    [method |-> method, url |-> url, params |-> params,
     hasJson |-> hasJson, body |-> body]

NoResponse == [kind |-> "none", status_code |-> 0, text |-> NoBody, error |-> ""]

Response(status, text) ==
    [kind |-> "response", status_code |-> status, text |-> text, error |-> ""]

RequestException(e) ==
    [kind |-> "error", status_code |-> 0, text |-> NoBody, error |-> e]

NoOutcome == [kind |-> "none", value |-> EmptyDict, exc |-> "", msg |-> ""]

Returned(v) == [kind |-> "returned", value |-> v, exc |-> "", msg |-> ""]

Raised(e, m) == [kind |-> "raised", value |-> EmptyDict, exc |-> e, msg |-> m]

NoInvocation == [name |-> "", args |-> EmptyDict]

\* What the backend may answer.
Statuses == {200, 201, 404, 500}

Malformed == [wellformed |-> FALSE, members |-> <<Member("error", "<html>")>>]

\* JSON objects the backend may send: a bug list, a creation receipt, and an
\* object equal to the one the lookup tools return on 404.
ResponseBodies ==
    { [bugs |-> "[{id:123,summary:x}]", faults |-> "[]"],
      [id |-> "42"],
      [error |-> "Bug not found"] }

BodyTexts == { JsonDumps(d) : d \in ResponseBodies } \cup {Malformed}

\* Failures of the transport for which requests raises instead of returning.
TransportErrors == {"ConnectionRefused", "ConnectTimedOut"}

\* response.json(): the parsed body, or the decoder's exception.
response_json(r) ==
    IF r.text.wellformed
    THEN Returned(JsonLoads(r.text))
    ELSE Raised("JSONDecodeError", "")

\* A transport failure caught and turned into an empty result.
Propagate_swallowed(r) == Returned(EmptyDict)

\* An exception raised inside requests leaves the tool function uncaught.
Propagate(r) == Raised("ConnectionError", r.error)

----------------------------------------------------------------------------
(* The six tools: the request each builds and how each reads the response. *)

get_bug_request(base, key, a) ==
    LET url == base \o "bug"
        params == [id |-> a["bug_ids"].str, api_key |-> key]
    IN Request("GET", url, params, FALSE, NoBody)

\* get_bug returning only the bug list of a successful answer.
get_bug_result_bugs_only(r) ==
    IF r.kind = "error" THEN Propagate(r)
    ELSE IF r.status_code # 200
         THEN IF r.status_code = 404
              THEN Returned([error |-> "Bug not found"])
              ELSE Raised("ValueError", "Failed to fetch Bugzilla bug details.")
         ELSE IF r.text.wellformed
              THEN LET v == JsonLoads(r.text)
                   IN Returned([k \in (DOMAIN v) \cap {"bugs"} |-> v[k]])
              ELSE Raised("JSONDecodeError", "")

get_bug_result(r) ==
    IF r.kind = "error" THEN Propagate(r)
    ELSE IF r.status_code # 200
         THEN IF r.status_code = 404
              THEN Returned([error |-> "Bug not found"])
              ELSE Raised("ValueError", "Failed to fetch Bugzilla bug details.")
         ELSE response_json(r)

get_bug_history_request(base, key, a) ==
    LET url == base \o "bug/" \o a["bug_id"].str \o "/history"
        params == [new_since |-> a["new_since"].str, api_key |-> key]
    IN Request("GET", url, params, FALSE, NoBody)

get_bug_history_result(r) ==
    IF r.kind = "error" THEN Propagate(r)
    ELSE IF r.status_code # 200
         THEN IF r.status_code = 404
              THEN Returned([error |-> "Bug not found"])
              ELSE Raised("ValueError", "Failed to fetch Bugzilla bug history.")
         ELSE response_json(r)

\* {"api_key": BUGZILLA_API_KEY, **query_strs}: a key of query_strs replaces
\* an equal key written before it.
search_bugs_request(base, key, a) ==
    LET url == base \o "bug"
        params == a["query_strs"].dict @@ [api_key |-> key]
    IN Request("GET", url, params, FALSE, NoBody)

\* search_bugs with the 404 branch of the lookup tools.
search_bugs_result_with_404(r) ==
    IF r.kind = "error" THEN Propagate(r)
    ELSE IF r.status_code # 200
         THEN IF r.status_code = 404
              THEN Returned([error |-> "Bug not found"])
              ELSE Raised("ValueError", "Failed to search Bugzilla bugs.")
         ELSE response_json(r)

search_bugs_result(r) ==
    IF r.kind = "error" THEN Propagate(r)
    ELSE IF r.status_code # 200
         THEN Raised("ValueError", "Failed to search Bugzilla bugs.")
         ELSE response_json(r)

create_bug_request(base, key, a) ==
    LET url == base \o "bug"
        params == [api_key |-> key]
    IN Request("POST", url, params, TRUE, JsonDumps(a["bug_data"].dict))

\* create_bug taking 200 for success as the other tools do.
create_bug_result_accepts_200(r) ==
    IF r.kind = "error" THEN Propagate(r)
    ELSE IF r.status_code \notin {200, 201}
         THEN Raised("ValueError", "Failed to create Bugzilla bug.")
         ELSE response_json(r)

create_bug_result(r) ==
    IF r.kind = "error" THEN Propagate(r)
    ELSE IF r.status_code # 201
         THEN Raised("ValueError", "Failed to create Bugzilla bug.")
         ELSE response_json(r)

\* update_bug writing the credential into the JSON body as well.
update_bug_request_key_in_body(base, key, a) ==
    LET url == base \o "bug/" \o a["bug_id"].str
        params == [api_key |-> key]
    IN Request("PUT", url, params, TRUE,
               JsonDumps([api_key |-> key] @@ a["bug_data"].dict))

update_bug_request(base, key, a) ==
    LET url == base \o "bug/" \o a["bug_id"].str
        params == [api_key |-> key]
    IN Request("PUT", url, params, TRUE, JsonDumps(a["bug_data"].dict))

update_bug_result(r) ==
    IF r.kind = "error" THEN Propagate(r)
    ELSE IF r.status_code # 200
         THEN Raised("ValueError", "Failed to update Bugzilla bug.")
         ELSE response_json(r)

get_bug_comments_request(base, key, a) ==
    LET url == base \o "bug/" \o a["bug_id"].str \o "/comment"
        params == [api_key |-> key]
    IN Request("GET", url, params, FALSE, NoBody)

\* get_bug_comments without the 404 branch.
get_bug_comments_result_no_404(r) ==
    IF r.kind = "error" THEN Propagate(r)
    ELSE IF r.status_code # 200
         THEN Raised("ValueError", "Failed to fetch Bugzilla bug comments.")
         ELSE response_json(r)

get_bug_comments_result(r) ==
    IF r.kind = "error" THEN Propagate(r)
    ELSE IF r.status_code # 200
         THEN IF r.status_code = 404
              THEN Returned([error |-> "Bug not found"])
              ELSE Raised("ValueError", "Failed to fetch Bugzilla bug comments.")
         ELSE response_json(r)

ToolResult(tool, r) ==
    CASE tool = "get_bug" -> get_bug_result(r)
      [] tool = "get_bug_history" -> get_bug_history_result(r)
      [] tool = "search_bugs" -> search_bugs_result(r)
      [] tool = "create_bug" -> create_bug_result(r)
      [] tool = "update_bug" -> update_bug_result(r)
      [] tool = "get_bug_comments" -> get_bug_comments_result(r)

----------------------------------------------------------------------------
(* State machine.                                                          *)

BaseUrls == {"http://bz/rest/"}

Credentials == {"secret"}

Init ==
    /\ BUGZILLA_API_URL \in BaseUrls
    /\ BUGZILLA_API_KEY \in Credentials
    /\ pc = [i \in Procs |-> "idle"]
    /\ inv = [i \in Procs |-> NoInvocation]
    /\ reqs = [i \in Procs |-> <<>>]
    /\ resp = [i \in Procs |-> NoResponse]
    /\ outcome = [i \in Procs |-> NoOutcome]

Config == <<BUGZILLA_API_URL, BUGZILLA_API_KEY>>

\* The arguments of slot i's call as the tool function receives them.
Args(i) == BoundArgs(Signature(inv[i].name), inv[i].args)

\* A caller submits an invocation; the server looks the tool up and binds
\* the arguments to its parameters before the function body runs.
Invoke(i, name, args) ==
    /\ pc[i] = "idle"
    /\ inv' = [inv EXCEPT ![i] = [name |-> name, args |-> args]]
    /\ IF name \notin ToolNames
       THEN /\ pc' = [pc EXCEPT ![i] = "done"]
            /\ outcome' = [outcome EXCEPT ![i] = Raised("UnknownOperation", name)]
       ELSE IF ~Accepts(name, args)
       THEN /\ pc' = [pc EXCEPT ![i] = "done"]
            /\ outcome' = [outcome EXCEPT ![i] = Raised("InvalidArguments", name)]
       ELSE /\ pc' = [pc EXCEPT ![i] = "dispatched"]
            /\ UNCHANGED outcome
    /\ UNCHANGED <<Config, reqs, resp>>

\* requests.get / requests.post / requests.put: the request leaves, and the
\* function waits for the call to come back.
Issue(i, r) ==
    /\ reqs' = [reqs EXCEPT ![i] = Append(@, r)]
    /\ pc' = [pc EXCEPT ![i] = "waiting"]
    /\ UNCHANGED <<Config, inv, resp, outcome>>

get_bug(i) ==
    /\ pc[i] = "dispatched"
    /\ inv[i].name = "get_bug"
    /\ Issue(i, get_bug_request(BUGZILLA_API_URL, BUGZILLA_API_KEY, Args(i)))

get_bug_history(i) ==
    /\ pc[i] = "dispatched"
    /\ inv[i].name = "get_bug_history"
    /\ Issue(i, get_bug_history_request(BUGZILLA_API_URL, BUGZILLA_API_KEY, Args(i)))

search_bugs(i) ==
    /\ pc[i] = "dispatched"
    /\ inv[i].name = "search_bugs"
    /\ Issue(i, search_bugs_request(BUGZILLA_API_URL, BUGZILLA_API_KEY, Args(i)))

create_bug(i) ==
    /\ pc[i] = "dispatched"
    /\ inv[i].name = "create_bug"
    /\ Issue(i, create_bug_request(BUGZILLA_API_URL, BUGZILLA_API_KEY, Args(i)))

update_bug(i) ==
    /\ pc[i] = "dispatched"
    /\ inv[i].name = "update_bug"
    /\ Issue(i, update_bug_request(BUGZILLA_API_URL, BUGZILLA_API_KEY, Args(i)))

get_bug_comments(i) ==
    /\ pc[i] = "dispatched"
    /\ inv[i].name = "get_bug_comments"
    /\ Issue(i, get_bug_comments_request(BUGZILLA_API_URL, BUGZILLA_API_KEY, Args(i)))

\* The backend answers the request with a status and a body.
BackendRespond(i, status, text) ==
    /\ pc[i] = "waiting"
    /\ resp' = [resp EXCEPT ![i] = Response(status, text)]
    /\ pc' = [pc EXCEPT ![i] = "back"]
    /\ UNCHANGED <<Config, inv, reqs, outcome>>

\* The transport fails and requests raises.
TransportFail(i, e) ==
    /\ pc[i] = "waiting"
    /\ resp' = [resp EXCEPT ![i] = RequestException(e)]
    /\ pc' = [pc EXCEPT ![i] = "back"]
    /\ UNCHANGED <<Config, inv, reqs, outcome>>

\* The backend accepts the connection and never answers. The calls pass no
\* timeout, so requests waits without bound.
BackendSilent(i) ==
    /\ pc[i] = "waiting"
    /\ pc' = [pc EXCEPT ![i] = "blocked"]
    /\ UNCHANGED <<Config, inv, reqs, resp, outcome>>

\* A tool that keeps the response in a variable shared by all calls, and so
\* may classify the response another call received.
Return_shared_response(i) ==
    /\ pc[i] = "back"
    /\ \E j \in Procs :
        /\ resp[j].kind # "none"
        /\ outcome' = [outcome EXCEPT ![i] = ToolResult(inv[i].name, resp[j])]
    /\ pc' = [pc EXCEPT ![i] = "done"]
    /\ UNCHANGED <<Config, inv, reqs, resp>>

\* A tool that sends its request again when the transport failed.
Return_retries(i) ==
    /\ pc[i] = "back"
    /\ IF resp[i].kind = "error"
       THEN /\ reqs' = [reqs EXCEPT ![i] = Append(@, @[1])]
            /\ resp' = [resp EXCEPT ![i] = NoResponse]
            /\ pc' = [pc EXCEPT ![i] = "waiting"]
            /\ UNCHANGED <<Config, inv, outcome>>
       ELSE /\ outcome' = [outcome EXCEPT ![i] = ToolResult(inv[i].name, resp[i])]
            /\ pc' = [pc EXCEPT ![i] = "done"]
            /\ UNCHANGED <<Config, inv, reqs, resp>>

\* The rest of the tool function: classify what came back and return or
\* raise.
Return(i) ==
    /\ pc[i] = "back"
    /\ outcome' = [outcome EXCEPT ![i] = ToolResult(inv[i].name, resp[i])]
    /\ pc' = [pc EXCEPT ![i] = "done"]
    /\ UNCHANGED <<Config, inv, reqs, resp>>

\* The caller takes the outcome; nothing of the invocation is kept.
Collect(i) ==
    /\ pc[i] = "done"
    /\ pc' = [pc EXCEPT ![i] = "idle"]
    /\ inv' = [inv EXCEPT ![i] = NoInvocation]
    /\ reqs' = [reqs EXCEPT ![i] = <<>>]
    /\ resp' = [resp EXCEPT ![i] = NoResponse]
    /\ outcome' = [outcome EXCEPT ![i] = NoOutcome]
    /\ UNCHANGED Config

\* One caller at a time: an invocation is submitted when no other is open.
Submit(i) ==
    /\ \A j \in Procs : pc[j] = "idle"
    /\ \E name \in InvokedNames, args \in Arguments : Invoke(i, name, args)

Step(i) ==
    \/ get_bug(i)
    \/ get_bug_history(i)
    \/ search_bugs(i)
    \/ create_bug(i)
    \/ update_bug(i)
    \/ get_bug_comments(i)
    \/ Return(i)

Backend(i) ==
    \/ \E status \in Statuses, text \in BodyTexts : BackendRespond(i, status, text)
    \/ \E e \in TransportErrors : TransportFail(i, e)
    \/ BackendSilent(i)

Next ==
    \E i \in Procs :
        \/ Submit(i)
        \/ Step(i)
        \/ Backend(i)
        \/ Collect(i)

Spec == Init /\ [][Next]_vars

\* The program's own steps run when they can; a backend that has not gone
\* silent answers; callers take their outcomes.
FairSpec ==
    /\ Spec
    /\ \A i \in Procs : WF_vars(Step(i)) /\ WF_vars(Backend(i)) /\ WF_vars(Collect(i))

----------------------------------------------------------------------------
(* Overlapping invocations. The HTTP transport serves callers side by      *)
(* side, so any slot may submit while others are open. The calls are one   *)
(* well-formed call of each tool and one of an unregistered name, and the  *)
(* backend's answers a part of those above.                                *)

\* The call of a tool with exactly its required parameters.
CallOf(tool) ==
    LET ps == Signature(tool)
        required == { k \in DOMAIN ps : ps[k].required }
    IN [name |-> tool,
        args |-> [n \in { ps[k].name : k \in required } |->
                    IF ps[CHOOSE k \in required : ps[k].name = n].shape = "str"
                    THEN Str("123")
                    ELSE Dict([summary |-> "S"])]]

ConcurrentCalls ==
    { CallOf(tool) : tool \in ToolNames } \cup {[name |-> "delete_bug", args |-> EmptyDict]}

ConcurrentStatuses == {200, 404}

ConcurrentTexts ==
    { JsonDumps([bugs |-> "[{id:123,summary:x}]", faults |-> "[]"]),
      JsonDumps([id |-> "42"]) }

SubmitConcurrent(i) ==
    \E c \in ConcurrentCalls : Invoke(i, c.name, c.args)

BackendConcurrent(i) ==
    \/ \E status \in ConcurrentStatuses, text \in ConcurrentTexts :
            BackendRespond(i, status, text)
    \/ TransportFail(i, "ConnectionRefused")
    \/ BackendSilent(i)

NextConcurrent ==
    \E i \in Procs :
        \/ SubmitConcurrent(i)
        \/ Step(i)
        \/ BackendConcurrent(i)
        \/ Collect(i)

SpecConcurrent == Init /\ [][NextConcurrent]_vars

----------------------------------------------------------------------------
(* Vocabulary of the properties.                                           *)

LookupTools == {"get_bug", "get_bug_history", "get_bug_comments"}

NotFoundMarker == [error |-> "Bug not found"]

SuccessStatus(tool) == IF tool = "create_bug" THEN 201 ELSE 200

\* The message with which each tool reports a refused request.
FailureMessage(tool) ==
    CASE tool = "get_bug" -> "Failed to fetch Bugzilla bug details."
      [] tool = "get_bug_history" -> "Failed to fetch Bugzilla bug history."
      [] tool = "search_bugs" -> "Failed to search Bugzilla bugs."
      [] tool = "create_bug" -> "Failed to create Bugzilla bug."
      [] tool = "update_bug" -> "Failed to update Bugzilla bug."
      [] tool = "get_bug_comments" -> "Failed to fetch Bugzilla bug comments."

\* Slot i's invocation has finished after the backend answered its request.
Answered(i) == pc[i] = "done" /\ resp[i].kind = "response"

\* The failure a non-success status produces: the tool's own ValueError.
StatusFailure(i) == outcome[i] = Raised("ValueError", FailureMessage(inv[i].name))

----------------------------------------------------------------------------
(* C1                                                                      *)

\* C1: when the backend answers a get_bug, get_bug_history or
\* get_bug_comments request with 404, the invocation returns
\* {"error": "Bug not found"} as a normal result and raises nothing.
C1_NotFoundIsAResult ==
    \A i \in Procs :
        (Answered(i) /\ inv[i].name \in LookupTools /\ resp[i].status_code = 404)
            => outcome[i] = Returned(NotFoundMarker)

C1_Witness ==
    \E i \in Procs :
        /\ Answered(i)
        /\ inv[i].name = "get_bug_comments"
        /\ resp[i].status_code = 404
        /\ outcome[i].kind = "returned"

----------------------------------------------------------------------------
(* C2                                                                      *)

UnkeyedTools == {"search_bugs", "create_bug", "update_bug"}

\* C2 as stated: for search_bugs, create_bug and update_bug a 404 ends in the
\* tool's failure, and the value {"error": "Bug not found"} is never
\* returned, whatever the backend's status.
C2_NeverTheMarker ==
    \A i \in Procs :
        (Answered(i) /\ inv[i].name \in UnkeyedTools)
            => /\ resp[i].status_code = 404 => StatusFailure(i)
               /\ outcome[i] # Returned(NotFoundMarker)

\* C2 amended: for search_bugs, create_bug and update_bug a 404 ends in the
\* tool's failure naming the operation, and the value
\* {"error": "Bug not found"} is returned only when the backend sent that
\* very object with the operation's success status.
C2_MarkerOnlyAsSuccessBody ==
    \A i \in Procs :
        (Answered(i) /\ inv[i].name \in UnkeyedTools)
            => /\ resp[i].status_code = 404 => StatusFailure(i)
               /\ outcome[i] = Returned(NotFoundMarker)
                    => /\ resp[i].status_code = SuccessStatus(inv[i].name)
                       /\ resp[i].text = JsonDumps(NotFoundMarker)
               /\ \A t \in ToolNames \ {inv[i].name} :
                    FailureMessage(t) # FailureMessage(inv[i].name)

C2_Witness ==
    \E i \in Procs :
        /\ Answered(i)
        /\ inv[i].name = "search_bugs"
        /\ resp[i].status_code = 404
        /\ outcome[i].kind = "raised"

----------------------------------------------------------------------------
(* C3                                                                      *)

\* C3: create_bug succeeds only on 201: any other status, 200 included, ends
\* in the tool's failure and no body is returned. The other five tools
\* succeed only on 200: a 201 ends in the tool's failure, and so does every
\* other status except the 404 of a lookup tool.
C3_SuccessStatusOnly ==
    \A i \in Procs :
        Answered(i) =>
            /\ (inv[i].name = "create_bug" /\ resp[i].status_code # 201)
                  => StatusFailure(i)
            /\ (inv[i].name # "create_bug" /\ resp[i].status_code = 201)
                  => StatusFailure(i)
            /\ (inv[i].name # "create_bug" /\ resp[i].status_code # 200)
                  => \/ StatusFailure(i)
                     \/ /\ inv[i].name \in LookupTools
                        /\ resp[i].status_code = 404
                        /\ outcome[i] = Returned(NotFoundMarker)

C3_Witness ==
    \E i \in Procs :
        /\ Answered(i)
        /\ inv[i].name = "create_bug"
        /\ resp[i].status_code = 200
        /\ resp[i].text.wellformed
        /\ outcome[i].kind = "raised"

----------------------------------------------------------------------------
(* C4                                                                      *)

\* C4: when the backend answers with the tool's success status and the JSON
\* object B, the invocation returns exactly B.
C4_BodyUnchanged ==
    \A i \in Procs : \A B \in ResponseBodies :
        ( /\ Answered(i)
          /\ resp[i].status_code = SuccessStatus(inv[i].name)
          /\ resp[i].text = JsonDumps(B) )
            => outcome[i] = Returned(B)

C4_Witness ==
    \E i \in Procs :
        /\ Answered(i)
        /\ inv[i].name = "get_bug"
        /\ resp[i].status_code = 200
        /\ outcome[i] = Returned([bugs |-> "[{id:123,summary:x}]", faults |-> "[]"])

----------------------------------------------------------------------------
(* C5                                                                      *)

\* Every request slot i has issued.
Requests(i) == { reqs[i][k] : k \in DOMAIN reqs[i] }

\* C5: every outbound request carries the query parameter api_key equal to
\* the configured credential, whatever the arguments, also when the query
\* mapping of search_bugs has a key api_key of its own.
C5_CredentialForwarded ==
    \A i \in Procs : \A r \in Requests(i) :
        /\ "api_key" \in DOMAIN r.params
        /\ r.params["api_key"] = BUGZILLA_API_KEY

----------------------------------------------------------------------------
(* C6                                                                      *)

BodyTools == {"create_bug", "update_bug"}

\* The text t is the JSON object d: one member per key of d, with d's value.
IsTextOf(t, d) ==
    /\ t.wellformed
    /\ Len(t.members) = Cardinality(DOMAIN d)
    /\ { t.members[k] : k \in DOMAIN t.members } = { Member(k, d[k]) : k \in DOMAIN d }

\* C6: the JSON body of a create_bug or update_bug request is the bug_data
\* argument, no member added, dropped or changed, the credential not among
\* them unless bug_data holds it; and the invocation's arguments are the
\* same after every step of the call as before it.
C6_BodyIsBugData ==
    /\ [](\A i \in Procs : \A r \in Requests(i) :
            inv[i].name \in BodyTools
                => /\ r.hasJson
                   /\ IsTextOf(r.body, inv[i].args["bug_data"].dict))
    /\ [][\A i \in Procs :
            (pc[i] # "idle" /\ pc'[i] # "idle") => inv'[i] = inv[i]]_vars

C6_Witness ==
    \E i \in Procs :
        /\ pc[i] = "done"
        /\ inv[i].name = "update_bug"
        /\ Len(reqs[i]) = 1
        /\ inv[i].args["bug_data"].dict = [summary |-> "S"]
        /\ reqs[i][1].body.members = <<Member("summary", "S")>>

----------------------------------------------------------------------------
(* C7                                                                      *)

\* The invocation failed at the backend call: an exception left the tool
\* function, as it does on a non-success status.
RequestFailed(o) ==
    o.kind = "raised" /\ o.exc \in {"ValueError", "ConnectionError", "JSONDecodeError"}

----------------------------------------------------------------------------
(* C8                                                                      *)

\* C8: every invocation that reaches its tool terminates, in a returned
\* value or in a failure, also when the backend never answers.
C8_Terminates ==
    \A i \in Procs :
        (pc[i] = "dispatched")
            ~> (pc[i] = "done" /\ outcome[i].kind \in {"returned", "raised"})

----------------------------------------------------------------------------
(* C9                                                                      *)

\* The required argument names as the catalog of the specification has them.
CatalogRequired(tool) ==
    CASE tool = "get_bug" -> {"bug_ids"}
      [] tool = "get_bug_history" -> {"bug_id"}
      [] tool = "search_bugs" -> {"query"}
      [] tool = "create_bug" -> {"bug_data"}
      [] tool = "update_bug" -> {"bug_id", "bug_data"}
      [] tool = "get_bug_comments" -> {"bug_id"}

\* The required argument names as the functions declare them.
DeclaredRequired(tool) ==
    CASE tool = "get_bug" -> {"bug_ids"}
      [] tool = "get_bug_history" -> {"bug_id"}
      [] tool = "search_bugs" -> {"query_strs"}
      [] tool = "create_bug" -> {"bug_data"}
      [] tool = "update_bug" -> {"bug_id", "bug_data"}
      [] tool = "get_bug_comments" -> {"bug_id"}

OptionalArgs(tool) == IF tool = "get_bug_history" THEN {"new_since"} ELSE {}

ShapeOf(n) == IF n \in {"bug_ids", "bug_id", "new_since"} THEN "str" ELSE "dict"

\* An argument of the tool supplied with a value of the wrong shape.
Misshapen(tool, required, args) ==
    \E n \in (required \cup OptionalArgs(tool)) \cap DOMAIN args :
        args[n].shape # ShapeOf(n)

Rejected(i) ==
    /\ pc[i] = "done"
    /\ outcome[i].kind = "raised"
    /\ outcome[i].exc \in {"UnknownOperation", "InvalidArguments"}
    /\ inv[i].name \notin ToolNames <=> outcome[i].exc = "UnknownOperation"
    /\ reqs[i] = <<>>
    /\ resp[i] = NoResponse

----------------------------------------------------------------------------
(* C10                                                                     *)

ReadTools == {"get_bug", "get_bug_history", "search_bugs", "get_bug_comments"}

\* The request r is the one the catalog fixes for the invocation v.
CatalogRequest(v, r) ==
    LET a == v.args
        base == BUGZILLA_API_URL
    IN CASE v.name = "get_bug" ->
              /\ r.method = "GET"
              /\ r.url = base \o "bug"
              /\ "id" \in DOMAIN r.params
              /\ r.params["id"] = a["bug_ids"].str
         [] v.name = "get_bug_history" ->
              /\ r.method = "GET"
              /\ r.url = base \o "bug/" \o a["bug_id"].str \o "/history"
              /\ "new_since" \in DOMAIN r.params
              /\ r.params["new_since"] =
                    (IF "new_since" \in DOMAIN a THEN a["new_since"].str ELSE "1970-01-01")
         [] v.name = "search_bugs" ->
              /\ r.method = "GET"
              /\ r.url = base \o "bug"
              /\ \A k \in DOMAIN a["query_strs"].dict :
                    k \in DOMAIN r.params /\ r.params[k] = a["query_strs"].dict[k]
         [] v.name = "create_bug" ->
              /\ r.method = "POST"
              /\ r.url = base \o "bug"
         [] v.name = "update_bug" ->
              /\ r.method = "PUT"
              /\ r.url = base \o "bug/" \o a["bug_id"].str
         [] v.name = "get_bug_comments" ->
              /\ r.method = "GET"
              /\ r.url = base \o "bug/" \o a["bug_id"].str \o "/comment"

\* C10: each tool builds its request with the method and target of the
\* catalog, new_since being "1970-01-01" when the caller omits it, and the
\* four read tools never issue a POST or a PUT.
C10_RequestShape ==
    \A i \in Procs : \A r \in Requests(i) :
        /\ CatalogRequest(inv[i], r)
        /\ inv[i].name \in ReadTools => r.method \notin {"POST", "PUT"}

C10_Witness ==
    \E i \in Procs :
        /\ pc[i] = "waiting"
        /\ inv[i].name = "get_bug_history"
        /\ "new_since" \notin DOMAIN inv[i].args
        /\ Len(reqs[i]) = 1
        /\ reqs[i][1].params["new_since"] = "1970-01-01"

----------------------------------------------------------------------------
(* C11                                                                     *)

\* Slot i holds an invocation that the server accepted and handed to its
\* tool function.
Served(i) ==
    /\ pc[i] \notin {"idle", "dispatched"}
    /\ outcome[i].exc \notin {"UnknownOperation", "InvalidArguments"}

----------------------------------------------------------------------------
(* C12                                                                     *)

\* Everything slot i holds of its invocation.
Slot(i) == <<pc[i], inv[i], reqs[i], resp[i], outcome[i]>>

====
